---------------------------- MODULE Spec2Model ----------------------------
(***************************************************************************)
(* Model of the image index / search service (app/main.py) and its vector  *)
(* store adapter (app/services/milvus_service.py).                         *)
(*                                                                         *)
(* Strings are sequences of tokens: a path "cats/a.png" is                 *)
(* <<"cats", "/", "a", ".png">>, so that strip, startswith, join, relpath  *)
(* and splitext are computed on the text and not assumed.  An optional     *)
(* string (Python None or a str) is a record [isNone, s].                  *)
(*                                                                         *)
(* A record of the collection is (auto id, embedding, file_path).  The id  *)
(* is opaque and assigned by the store, the embedding is determined by the *)
(* path, so the collection is held as the number of records per path.      *)
(***************************************************************************)
EXTENDS Naturals, Sequences, FiniteSets, TLC

VARIABLES
    store,   \* the collection: path -> number of records holding that path
    disk,    \* the files under IMAGE_DIR, as paths relative to IMAGE_DIR
    resp,    \* the response of the last request, with a trace of its calls
    inflight \* per worker process, the index run it is executing

vars == <<store, disk, resp, inflight>>

---------------------------------------------------------------------------
(* Bounds of the model *)

\* the collection never holds more records than this
MaxRecords == 7

\* the records a collection holds when a search starts (SpecSearch)
MaxStored == 3

\* the largest search limit n that is tried
MaxN == 3

\* the records the collection may hold while two runs overlap (SpecConc)
MaxConcRecords == 3

\* the longest list of paths given to delete_vectors_by_file_paths (SpecDelete)
MaxDeletePaths == 1001

\* the most records of a collection that _get_all_entities_iter reads (SpecScan)
MaxScanRows == 2001

---------------------------------------------------------------------------
(* Program constants *)

\* delete_vectors_by_file_paths: batch_size = 500
DeleteBatchSize == 500

\* delete_vectors_by_file_paths: limit=len(batch_paths) + 5
LookupSlack == 5

\* _get_all_entities_iter: batch_size = 1000
ScanBatchSize == 1000

\* search_images: n: int = Query(5, gt=0, le=100)
SearchLimitMax == 100

IMAGE_DIR == "images"

SEP == "/"

ImageExtensions == {".png", ".jpg", ".jpeg", ".gif", ".bmp"}

---------------------------------------------------------------------------
(* The file tree the environment may build under IMAGE_DIR *)

CatsA == <<"cats", "/", "a", ".png">>
DogsB == <<"dogs", "/", "b", ".jpg">>
DogsC == <<"dogs", "/", "c", ".gif">>
CatsNote == <<"cats", "/", "n", ".txt">>

\* every file that may exist on disk
DiskFiles == {CatsA, DogsB, CatsNote}

\* the subdirectories of IMAGE_DIR; they exist whether or not they hold files
Directories == {<<"cats">>, <<"dogs">>}

---------------------------------------------------------------------------
(* Strings *)

None == [isNone |-> TRUE, s |-> <<>>]

Str(s) == [isNone |-> FALSE, s |-> s]

\* Python truthiness of an optional string: None and "" are falsy
Truthy(o) == ~o.isNone /\ o.s # <<>>

Min(a, b) == IF a < b THEN a ELSE b

\* str.startswith
StartsWith(s, p) == Len(p) <= Len(s) /\ SubSeq(s, 1, Len(p)) = p

RECURSIVE LStrip(_)
LStrip(s) == IF s # <<>> /\ Head(s) = SEP THEN LStrip(Tail(s)) ELSE s

RECURSIVE RStrip(_)
RStrip(s) ==
    IF s # <<>> /\ s[Len(s)] = SEP THEN RStrip(SubSeq(s, 1, Len(s) - 1)) ELSE s

\* str.strip(os.path.sep)
Strip(s) == RStrip(LStrip(s))

\* str.lower on one token
Lower(tok) ==
    CASE tok = ".PNG" -> ".png"
      [] tok = ".JPG" -> ".jpg"
      [] tok = ".GIF" -> ".gif"
      [] OTHER -> tok

\* os.path.join(a, b) for a relative b
PathJoin(a, b) == IF a[Len(a)] = SEP THEN a \o b ELSE a \o <<SEP>> \o b

\* os.path.relpath(full_path, IMAGE_DIR) for a path below IMAGE_DIR
RelPath(full) == SubSeq(full, 3, Len(full))

\* os.path.splitext(path)[0]
SplitExtRoot(path) ==
    IF Len(path) > 1 /\ path[Len(path)] \in ImageExtensions \cup {".txt"}
    THEN SubSeq(path, 1, Len(path) - 1)
    ELSE path

\* file.lower().endswith(('.png', '.jpg', '.jpeg', '.gif', '.bmp'))
IsImageFile(path) == path # <<>> /\ Lower(path[Len(path)]) \in ImageExtensions

\* os.path.isdir(path) for a path at or directly below IMAGE_DIR
IsDir(path) ==
    \/ path \in {<<IMAGE_DIR>>, <<IMAGE_DIR, SEP>>}
    \/ \E d \in Directories : path = <<IMAGE_DIR, SEP>> \o d

\* a set as a sequence, in some order
RECURSIVE SetToSeq(_)
SetToSeq(S) ==
    IF S = {} THEN <<>>
    ELSE LET x == CHOOSE y \in S : TRUE IN <<x>> \o SetToSeq(S \ {x})

Range(q) == {q[i] : i \in 1..Len(q)}

---------------------------------------------------------------------------
(* The collection (MilvusService) *)

\* the collection right after create_collection
EmptyStore == [p \in DiskFiles |-> 0]

\* the sum of the numbers f[x] for x in S, counted as the pairs <<x, k>>
\* with k in 1..f[x]
SumOver(f, S) == Cardinality(UNION {{<<x, k>> : k \in 1..f[x]} : x \in S})

\* the number of records of a collection
Total(s) == SumOver(s, DOMAIN s)

\* the paths that at least one record holds
StoredPaths(s) == {p \in DOMAIN s : s[p] > 0}

\* n rows that hold x
Repeat(x, n) == [i \in 1..n |-> x]

RECURSIVE RowsOf(_, _)
RowsOf(s, order) ==
    IF order = <<>> THEN <<>>
    ELSE Repeat(Head(order), s[Head(order)]) \o RowsOf(s, Tail(order))

\* the file_path of every row of the collection, in the store's row order
Rows(s) == RowsOf(s, SetToSeq(DOMAIN s))

\* count_entities: the row count, 0 when get_collection_stats raises
CountEntities(s, fails) == IF fails THEN 0 ELSE Total(s)

\* client.query(filter="", limit=limit, offset=offset)
QueryPage(rows, limit, offset) ==
    SubSeq(rows, offset + 1, Min(offset + limit, Len(rows)))

\* a slip: the loop ends after its first page
ScanLoopOnePage(rows, total_entities, fetched_count, offset, page, failPage, all_entities) ==
    IF ~(fetched_count < total_entities)
    THEN [raised |-> FALSE, entities |-> all_entities]
    ELSE IF page = failPage
    THEN [raised |-> TRUE, entities |-> <<>>]
    ELSE [raised |-> FALSE,
          entities |-> all_entities \o QueryPage(rows, ScanBatchSize, offset)]

\* the while loop of _get_all_entities_iter; the query of page failPage raises
RECURSIVE ScanLoop(_, _, _, _, _, _, _)
ScanLoop(rows, total_entities, fetched_count, offset, page, failPage, all_entities) ==
    IF ~(fetched_count < total_entities)
    THEN [raised |-> FALSE, entities |-> all_entities]
    ELSE IF page = failPage
    THEN [raised |-> TRUE, entities |-> <<>>]
    ELSE LET results == QueryPage(rows, ScanBatchSize, offset) IN
         IF results = <<>>
         THEN [raised |-> FALSE, entities |-> all_entities]
         ELSE IF Len(results) < ScanBatchSize
         THEN [raised |-> FALSE, entities |-> all_entities \o results]
         ELSE ScanLoop(rows, total_entities, fetched_count + Len(results),
                       offset + Len(results), page + 1, failPage,
                       all_entities \o results)

\* _get_all_entities_iter(output_fields=["file_path"]).  scanFail is what
\* goes wrong: "none", "count" (get_collection_stats raises inside
\* count_entities) or "query" (the first client.query raises).
GetAllEntitiesIter(s, scanFail) ==
    LET total_entities == CountEntities(s, scanFail = "count") IN
    IF total_entities = 0
    THEN [raised |-> FALSE, entities |-> <<>>,
          failed |-> IF scanFail = "count" THEN {"scan_count"} ELSE {}]
    ELSE LET r == ScanLoop(Rows(s), total_entities, 0, 0, 1,
                           IF scanFail = "query" THEN 1 ELSE 0, <<>>) IN
         [raised |-> r.raised, entities |-> r.entities,
          failed |-> IF r.raised THEN {"scan_query"} ELSE {}]

\* get_all_file_paths(category_prefix): an exception of the scan is printed
\* and the set collected so far (nothing) is returned
GetAllFilePaths(s, category_prefix, scanFail) ==
    LET r == GetAllEntitiesIter(s, scanFail) IN
    [file_paths |->
        IF r.raised THEN {}
        ELSE {fp \in Range(r.entities) :
                 /\ fp # <<>>
                 /\ Truthy(category_prefix) => StartsWith(fp, category_prefix.s)},
     failed |-> r.failed]

\* a slip: the insert is an upsert keyed by file_path
RECURSIVE AddRowsUpsert(_, _)
AddRowsUpsert(s, file_paths) ==
    IF file_paths = <<>> THEN s
    ELSE AddRowsUpsert([s EXCEPT ![Head(file_paths)] = 1], Tail(file_paths))

RECURSIVE AddRows(_, _)
AddRows(s, file_paths) ==
    IF file_paths = <<>> THEN s
    ELSE AddRows([s EXCEPT ![Head(file_paths)] = @ + 1], Tail(file_paths))

\* insert_vectors(vectors, file_paths); a failed client.insert stores nothing
InsertVectors(s, vectors, file_paths, insertFails) ==
    IF vectors = <<>> \/ file_paths = <<>> \/ Len(vectors) # Len(file_paths)
    THEN [raised |-> TRUE, store |-> s, called |-> FALSE]
    ELSE IF insertFails
    THEN [raised |-> TRUE, store |-> s, called |-> TRUE]
    ELSE [raised |-> FALSE, store |-> AddRows(s, file_paths), called |-> TRUE]

\* the rows whose file_path is one of batch_paths, per path
Matching(s, batch_paths) ==
    LET named == Range(batch_paths)
    IN [p \in DOMAIN s |-> IF p \in named THEN s[p] ELSE 0]

\* the limit of the id lookup of one batch
LookupLimit(batch_paths) == Len(batch_paths) + LookupSlack

\* client.query(filter="file_path in [...]", output_fields=['id'], limit=...):
\* every answer the store may give, as the number of ids found per path.
\* When more rows match than the limit allows, which rows come back is the
\* store's choice.
LookupResults(s, batch_paths) ==
    LET m == Matching(s, batch_paths)
        limit == LookupLimit(batch_paths)
    IN IF Total(m) <= limit THEN {m}
       ELSE {f \in [DOMAIN s -> 0..Total(m)] :
                /\ \A p \in DOMAIN s : f[p] <= m[p]
                /\ Total(f) = limit}

\* the number of batches delete_vectors_by_file_paths makes of n paths
NumBatches(n) == (n + DeleteBatchSize - 1) \div DeleteBatchSize

\* a slip: a failed id lookup ends the loop (break, not continue)
RECURSIVE DeleteLoopAborts(_, _, _, _, _, _, _)
DeleteLoopAborts(s, file_paths, b, outcome, found, deleted_count_total, failed) ==
    LET i == (b - 1) * DeleteBatchSize IN
    IF ~(i < Len(file_paths))
    THEN [store |-> s, deleted |-> deleted_count_total, failed |-> failed]
    ELSE LET ids_to_delete == found[b]
         IN IF outcome[b] = "lookup"
            THEN [store |-> s, deleted |-> deleted_count_total,
                  failed |-> failed \cup {"lookup"}]
            ELSE IF Total(ids_to_delete) = 0
            THEN DeleteLoopAborts(s, file_paths, b + 1, outcome, found,
                                  deleted_count_total, failed)
            ELSE IF outcome[b] = "delete"
            THEN DeleteLoopAborts(s, file_paths, b + 1, outcome, found,
                                  deleted_count_total, failed \cup {"delete"})
            ELSE DeleteLoopAborts([p \in DOMAIN s |-> s[p] - ids_to_delete[p]],
                                  file_paths, b + 1, outcome, found,
                                  deleted_count_total + Total(ids_to_delete), failed)

\* the for loop of delete_vectors_by_file_paths from batch b on.
\* outcome[b] is "ok", "lookup" (the id query raises) or "delete" (the
\* delete call raises; a failed delete removes nothing); found[b] is the
\* answer of the id query.
RECURSIVE DeleteLoop(_, _, _, _, _, _, _)
DeleteLoop(s, file_paths, b, outcome, found, deleted_count_total, failed) ==
    LET i == (b - 1) * DeleteBatchSize IN
    IF ~(i < Len(file_paths))
    THEN [store |-> s, deleted |-> deleted_count_total, failed |-> failed]
    ELSE LET batch_paths ==
                 SubSeq(file_paths, i + 1, Min(i + DeleteBatchSize, Len(file_paths)))
             ids_to_delete == found[b]
         IN IF outcome[b] = "lookup"
            THEN DeleteLoop(s, file_paths, b + 1, outcome, found,
                            deleted_count_total, failed \cup {"lookup"})
            ELSE IF Total(ids_to_delete) = 0
            THEN DeleteLoop(s, file_paths, b + 1, outcome, found,
                            deleted_count_total, failed)
            ELSE IF outcome[b] = "delete"
            THEN DeleteLoop(s, file_paths, b + 1, outcome, found,
                            deleted_count_total, failed \cup {"delete"})
            ELSE DeleteLoop([p \in DOMAIN s |-> s[p] - ids_to_delete[p]],
                            file_paths, b + 1, outcome, found,
                            deleted_count_total + Total(ids_to_delete), failed)

\* delete_vectors_by_file_paths(file_paths)
DeleteVectorsByFilePaths(s, file_paths, outcome, found) ==
    IF file_paths = <<>>
    THEN [store |-> s, deleted |-> 0, failed |-> {}]
    ELSE DeleteLoop(s, file_paths, 1, outcome, found, 0, {})

---------------------------------------------------------------------------
(* The embedding client *)

\* get_embedding(text): ValueError on an empty text, otherwise the
\* provider's vector or the provider's exception
GetEmbedding(text, providerFails) ==
    [raised |-> text = <<>> \/ providerFails, embedding |-> <<"vec">> \o text]

---------------------------------------------------------------------------
(* POST /index-images/ *)

\* the worker processes that serve requests
Workers == {1, 2}

\* a worker that is not inside index_images
Idle == [pc |-> "idle"]

\* the category arguments that are tried: absent, "", "/", "cats/" and
\* "birds" (no such directory)
Categories ==
    {None, Str(<<>>), Str(<<SEP>>), Str(<<"cats", SEP>>), Str(<<"birds">>)}

\* clean_category = category.strip(os.path.sep)
CleanCategory(category) == Strip(category.s)

\* base_indexing_path
BaseIndexingPath(category) ==
    IF Truthy(category)
    THEN PathJoin(<<IMAGE_DIR>>, CleanCategory(category))
    ELSE <<IMAGE_DIR>>

\* milvus_category_prefix
MilvusCategoryPrefix(category) ==
    IF Truthy(category) THEN Str(CleanCategory(category) \o <<SEP>>) ELSE None

\* os.walk(base): the full path of every file below base
Walk(d, base) ==
    LET dir == IF base[Len(base)] = SEP THEN base ELSE base \o <<SEP>> IN
    {full \in {PathJoin(<<IMAGE_DIR>>, f) : f \in d} : StartsWith(full, dir)}

\* local_image_relative_paths after the walk
LocalImageRelativePaths(d, category) ==
    LET prefix == MilvusCategoryPrefix(category)
        kept == {full \in Walk(d, BaseIndexingPath(category)) :
                    /\ IsImageFile(full)
                    /\ Truthy(category) => StartsWith(RelPath(full), prefix.s)}
    IN {RelPath(full) : full \in kept}

\* files_to_add_relative_paths
FilesToAdd(local, indexed) == local \ indexed

\* a slip: every indexed path is scheduled for deletion
FilesToDeleteAll(local, indexed) == indexed

\* files_to_delete_relative_paths
FilesToDelete(local, indexed) == indexed \ local

\* a slip: the first failing embedding ends the loop (break, not continue)
RECURSIVE EmbedLoopAborts(_, _, _, _, _, _)
EmbedLoopAborts(todo, embedFail, embeddings, filenames, failed_add_count, called) ==
    IF todo = <<>>
    THEN [embeddings |-> embeddings, filenames |-> filenames,
          failed_add_count |-> failed_add_count, called |-> called]
    ELSE LET relative_path == Head(todo)
             e == GetEmbedding(SplitExtRoot(relative_path),
                               relative_path \in embedFail)
         IN IF e.raised
            THEN [embeddings |-> embeddings, filenames |-> filenames,
                  failed_add_count |-> failed_add_count + 1,
                  called |-> called \o <<relative_path>>]
            ELSE EmbedLoopAborts(Tail(todo), embedFail,
                                 embeddings \o <<e.embedding>>,
                                 filenames \o <<relative_path>>,
                                 failed_add_count, called \o <<relative_path>>)

\* the for loop over files_to_add_relative_paths; embedFail are the paths
\* for which the provider fails.  called lists the paths get_embedding was
\* called for.
RECURSIVE EmbedLoop(_, _, _, _, _, _)
EmbedLoop(todo, embedFail, embeddings, filenames, failed_add_count, called) ==
    IF todo = <<>>
    THEN [embeddings |-> embeddings, filenames |-> filenames,
          failed_add_count |-> failed_add_count, called |-> called]
    ELSE LET relative_path == Head(todo)
             e == GetEmbedding(SplitExtRoot(relative_path),
                               relative_path \in embedFail)
         IN IF e.raised
            THEN EmbedLoop(Tail(todo), embedFail, embeddings, filenames,
                           failed_add_count + 1, called \o <<relative_path>>)
            ELSE EmbedLoop(Tail(todo), embedFail, embeddings \o <<e.embedding>>,
                           filenames \o <<relative_path>>, failed_add_count,
                           called \o <<relative_path>>)

\* a slip: a failed insert leaves failed_add_count as it was
InsertCountsForgetful(filenames, failed_add_count, raised) ==
    IF raised
    THEN [added_count |-> 0, failed_add_count |-> failed_add_count]
    ELSE [added_count |-> Len(filenames),
          failed_add_count |-> failed_add_count]

\* added_count and failed_add_count after the try around insert_vectors
InsertCounts(filenames, failed_add_count, raised) ==
    IF raised
    THEN [added_count |-> 0,
          failed_add_count |-> failed_add_count + Len(filenames)]
    ELSE [added_count |-> Len(filenames),
          failed_add_count |-> failed_add_count]

\* "if files_to_add_relative_paths:": embed every path, insert in one call
AddPhase(s, to_add, embedFail, insertFails) ==
    IF to_add = {}
    THEN [store |-> s, added_count |-> 0, failed_add_count |-> 0,
          embed_called |-> <<>>, insert_called |-> FALSE, insert_arg |-> <<>>,
          failed |-> {}]
    ELSE LET e == EmbedLoop(SetToSeq(to_add), embedFail, <<>>, <<>>, 0, <<>>) IN
         IF e.embeddings = <<>>
         THEN [store |-> s, added_count |-> 0,
               failed_add_count |-> e.failed_add_count,
               embed_called |-> e.called, insert_called |-> FALSE,
               insert_arg |-> <<>>, failed |-> {}]
         ELSE LET ins == InsertVectors(s, e.embeddings, e.filenames, insertFails)
                  c == InsertCounts(e.filenames, e.failed_add_count, ins.raised)
              IN [store |-> ins.store, added_count |-> c.added_count,
                  failed_add_count |-> c.failed_add_count,
                  embed_called |-> e.called, insert_called |-> ins.called,
                  insert_arg |-> e.filenames,
                  failed |-> IF ins.raised THEN {"insert"} ELSE {}]

\* "if files_to_delete_relative_paths:"
DeletePhase(s, to_delete_list, outcome, found) ==
    IF to_delete_list = <<>>
    THEN [store |-> s, deleted |-> 0, failed |-> {}]
    ELSE DeleteVectorsByFilePaths(s, to_delete_list, outcome, found)

\* batch b of a list of paths
BatchPaths(file_paths, b) ==
    SubSeq(file_paths, (b - 1) * DeleteBatchSize + 1,
           Min(b * DeleteBatchSize, Len(file_paths)))

\* the answers the store may give to the id lookups of the batches
FoundChoices(s, file_paths) ==
    LET nb == NumBatches(Len(file_paths))
        all == UNION {LookupResults(s, BatchPaths(file_paths, b)) : b \in 1..nb}
    IN {f \in [1..nb -> all] :
           \A b \in 1..nb : f[b] \in LookupResults(s, BatchPaths(file_paths, b))}

\* the body of index_images from the scan on, for a category whose
\* directory exists: the collection it leaves and its response
IndexRun(s, d, category, scanFail, embedFail, insertFails, outcome, found, countFails) ==
    LET scan == GetAllFilePaths(s, MilvusCategoryPrefix(category), scanFail)
        indexed == scan.file_paths
        local == LocalImageRelativePaths(d, category)
        to_add == FilesToAdd(local, indexed)
        to_delete == FilesToDelete(local, indexed)
        add == AddPhase(s, to_add, embedFail, insertFails)
        del == DeletePhase(add.store, SetToSeq(to_delete), outcome, found)
        total_after == CountEntities(del.store, countFails)
    IN [store |-> del.store,
        resp |->
          [op |-> "index", status |-> 200, category |-> category,
           body |->
             [files_on_disk_scanned |-> Cardinality(local),
              files_in_milvus_before_op_for_category |-> Cardinality(indexed),
              new_files_added_to_milvus |-> add.added_count,
              files_deleted_from_milvus |-> del.deleted,
              failed_to_add_count |-> add.failed_add_count,
              total_in_milvus_after_op |-> total_after],
           trace |->
             [local |-> local, indexed |-> indexed,
              to_add |-> to_add, to_delete |-> to_delete,
              embed_called |-> add.embed_called,
              embed_failed |-> embedFail,
              insert_called |-> add.insert_called,
              insert_arg |-> Range(add.insert_arg),
              failed_calls |->
                 scan.failed \cup add.failed \cup del.failed
                 \cup (IF countFails THEN {"count"} ELSE {})]]]

\* the response when the category's directory does not exist
NotFound(category) ==
    [op |-> "index", status |-> 404, category |-> category]

\* no request has been answered since the file tree last changed
NoResp == [op |-> "none", status |-> 0]

\* index_images(category), with whatever the embedding provider and the
\* store do during it
IndexImages ==
    \E category \in Categories :
        IF Truthy(category) /\ ~IsDir(BaseIndexingPath(category))
        THEN /\ resp' = NotFound(category)
             /\ UNCHANGED <<store, disk, inflight>>
        ELSE \E scanFail \in {"none", "count", "query"} :
             LET scan == GetAllFilePaths(store, MilvusCategoryPrefix(category), scanFail)
                 local == LocalImageRelativePaths(disk, category)
                 to_add == FilesToAdd(local, scan.file_paths)
                 to_delete == SetToSeq(FilesToDelete(local, scan.file_paths))
             IN \E embedFail \in SUBSET to_add :
                \E insertFails \in IF embedFail = to_add THEN {FALSE} ELSE BOOLEAN :
                \E outcome \in [1..NumBatches(Len(to_delete)) -> {"ok", "lookup", "delete"}] :
                \E found \in FoundChoices(store, to_delete) :
                \E countFails \in BOOLEAN :
                LET r == IndexRun(store, disk, category, scanFail, embedFail,
                                  insertFails, outcome, found, countFails)
                IN /\ Total(r.store) <= MaxRecords
                   /\ store' = r.store
                   /\ resp' = r.resp
                   /\ UNCHANGED <<disk, inflight>>

---------------------------------------------------------------------------
(* The environment: files appear and disappear under IMAGE_DIR *)

AddFile ==
    \E f \in DiskFiles \ disk :
        /\ disk' = disk \cup {f}
        /\ resp' = NoResp
        /\ UNCHANGED <<store, inflight>>

RemoveFile ==
    \E f \in disk :
        /\ disk' = disk \ {f}
        /\ resp' = NoResp
        /\ UNCHANGED <<store, inflight>>

---------------------------------------------------------------------------
(* The service after start-up: an empty collection, an empty image tree *)

Init ==
    /\ store = EmptyStore
    /\ disk = {}
    /\ resp = NoResp
    /\ inflight = [w \in Workers |-> Idle]

Next == AddFile \/ RemoveFile \/ IndexImages

Spec == Init /\ [][Next]_vars

---------------------------------------------------------------------------
(* GET /search/ *)

\* request_url_base = f"{request.url.scheme}://{request.url.netloc}"
RequestUrlBase == <<"http://host">>

\* construct_image_url(filename, request_url_base)
ConstructImageUrl(filename, request_url_base) ==
    LET base == IF request_url_base[Len(request_url_base)] # SEP
                THEN request_url_base \o <<SEP>>
                ELSE request_url_base
    IN base \o <<IMAGE_DIR, SEP>> \o filename

\* the number of elements of a sequence equal to x
Occurrences(q, x) == Cardinality({i \in 1..Len(q) : q[i] = x})

\* client.search(limit=n): every answer the store may give, nearest first.
\* The distances depend on the query vector, so any ranking of the rows is
\* possible; the answer holds the n nearest rows, or all rows if fewer.
SearchResults(s, n) ==
    LET k == Min(n, Total(s)) IN
    {h \in [1..k -> StoredPaths(s)] : \A p \in StoredPaths(s) : Occurrences(h, p) <= s[p]}

\* search_vectors(query_vector, n): hits_data, one dict per hit
SearchVectors(ranking) ==
    [i \in 1..Len(ranking) |-> [distance |-> i, file_path |-> Str(ranking[i])]]

\* one of the three loops "for res in search_results" that collect URLs;
\* prefix is the prefix a path must start with, or None for no filtering
RECURSIVE CollectUrls(_, _, _)
CollectUrls(search_results, prefix, image_urls) ==
    IF search_results = <<>> THEN image_urls
    ELSE LET file_path == Head(search_results).file_path IN
         IF Truthy(file_path) /\ (prefix.isNone \/ StartsWith(file_path.s, prefix.s))
         THEN CollectUrls(Tail(search_results), prefix,
                          image_urls \o <<ConstructImageUrl(file_path.s, RequestUrlBase)>>)
         ELSE CollectUrls(Tail(search_results), prefix, image_urls)

\* category_prefix_to_match
CategoryPrefixToMatch(category) ==
    IF Truthy(category) /\ CleanCategory(category) # <<>>
    THEN Str(CleanCategory(category) \o <<SEP>>)
    ELSE None

\* a slip: the category is not applied to the hits
FilterHitsUnfiltered(search_results, category) ==
    IF search_results = <<>> THEN <<>>
    ELSE CollectUrls(search_results, None, <<>>)

\* image_urls after "if search_results:"
FilterHits(search_results, category) ==
    IF search_results = <<>> THEN <<>>
    ELSE CollectUrls(search_results, CategoryPrefixToMatch(category), <<>>)

\* the first result that has a file_path, as a list of at most one URL
RECURSIVE TopAvailable(_)
TopAvailable(search_results) ==
    IF search_results = <<>> THEN <<>>
    ELSE IF Truthy(Head(search_results).file_path)
    THEN <<ConstructImageUrl(Head(search_results).file_path.s, RequestUrlBase)>>
    ELSE TopAvailable(Tail(search_results))

\* a slip: strict mode, an empty filtered list is returned as it is
FallbackStrict(search_results, image_urls, category) == image_urls

\* image_urls after "if not image_urls and search_results:"
Fallback(search_results, image_urls, category) ==
    IF image_urls = <<>> /\ search_results # <<>>
    THEN LET anyPath == \E i \in 1..Len(search_results) :
                            Truthy(search_results[i].file_path)
             log_message_prefix == Truthy(category) /\ anyPath
         IN IF ~log_message_prefix /\ ~anyPath
            THEN image_urls
            ELSE image_urls \o TopAvailable(search_results)
    ELSE image_urls

\* search_images(q, n, category): q is any text of length >= 1, on which
\* only the ranking depends
SearchImages ==
    \E n \in 1..Min(MaxN, SearchLimitMax) :
    \E category \in Categories :
        \/ \E call \in {"get_embedding", "search_vectors"} :
              /\ resp' = [op |-> "search", status |-> 500, category |-> category,
                          n |-> n, failed_call |-> call]
              /\ UNCHANGED <<store, disk, inflight>>
        \/ \E ranking \in SearchResults(store, n) :
              LET search_results == SearchVectors(ranking)
                  image_urls == FilterHits(search_results, category)
              IN /\ resp' = [op |-> "search", status |-> 200,
                             category |-> category, n |-> n,
                             hits |-> search_results,
                             data |-> Fallback(search_results, image_urls, category)]
                 /\ UNCHANGED <<store, disk, inflight>>

\* The collections a search may find: any records index runs have left
\* behind (every path on disk once, more often after runs whose scan failed)
InitSearch ==
    /\ store \in {s \in [DiskFiles -> 0..MaxStored] :
                     /\ Total(s) <= MaxStored
                     /\ \A p \in DiskFiles : s[p] > 0 => IsImageFile(p)}
    /\ disk = {}
    /\ resp = NoResp
    /\ inflight = [w \in Workers |-> Idle]

NextSearch == SearchImages

SpecSearch == InitSearch /\ [][NextSearch]_vars

---------------------------------------------------------------------------
(* The set difference of index_images on arbitrary file sets *)

\* the paths the two sets are drawn from
DiffPaths == {CatsA, DogsB, DogsC, <<"r", ".bmp">>}

\* lines 93-94 of index_images applied to a local and an indexed set
ComputeDiff ==
    \E L \in SUBSET DiffPaths : \E I \in SUBSET DiffPaths :
        /\ resp' = [op |-> "diff", status |-> 0, local |-> L, indexed |-> I,
                    to_add |-> FilesToAdd(L, I),
                    to_delete |-> FilesToDelete(L, I)]
        /\ UNCHANGED <<store, disk, inflight>>

NextDiff == ComputeDiff

SpecDiff == Init /\ [][NextDiff]_vars

---------------------------------------------------------------------------
(* Index runs in two worker processes on one collection.  index_images    *)
(* takes no lock and opens no transaction, so between any two of its store *)
(* calls the other worker may run: a run is split at its store calls into  *)
(* the read of the indexed set, the add step and the delete step.          *)

\* the scopes the overlapping runs are started for: whole tree and cats/
ConcCategories == {None, Str(<<"cats", SEP>>)}

\* index_images up to the set differences: the worker has read the indexed
\* set and walked the tree.  overlaps are the workers that have read the
\* indexed set and not yet written while this worker reads it.
BeginIndex(w) ==
    /\ inflight[w].pc \in {"idle", "done"}
    /\ \E category \in ConcCategories :
       \E scanFail \in {"none", "count", "query"} :
          LET scan == GetAllFilePaths(store, MilvusCategoryPrefix(category), scanFail)
              local == LocalImageRelativePaths(disk, category)
              reading == {v \in Workers \ {w} : inflight[v].pc = "add"}
          IN inflight' =
                [v \in Workers |->
                    IF v = w
                    THEN [pc |-> "add", category |-> category,
                          to_add |-> FilesToAdd(local, scan.file_paths),
                          to_delete |-> FilesToDelete(local, scan.file_paths),
                          inserted |-> {}, overlaps |-> reading]
                    ELSE IF v \in reading
                    THEN [inflight[v] EXCEPT !.overlaps = @ \cup {w}]
                    ELSE IF inflight[v].pc = "idle" THEN inflight[v]
                    ELSE [inflight[v] EXCEPT !.overlaps = @ \ {w}]]
    /\ UNCHANGED <<store, disk, resp>>

\* the add step of index_images: the embeddings and the bulk insert
AddStep(w) ==
    /\ inflight[w].pc = "add"
    /\ \E embedFail \in SUBSET inflight[w].to_add :
       \E insertFails \in IF embedFail = inflight[w].to_add THEN {FALSE} ELSE BOOLEAN :
          LET a == AddPhase(store, inflight[w].to_add, embedFail, insertFails) IN
          /\ Total(a.store) <= MaxConcRecords
          /\ store' = a.store
          /\ inflight' = [inflight EXCEPT ![w] =
                 [@ EXCEPT !.pc = "delete",
                           !.inserted = IF "insert" \in a.failed
                                        THEN {} ELSE Range(a.insert_arg)]]
    /\ UNCHANGED <<disk, resp>>

\* the delete step of index_images; the run then counts the collection and
\* returns its report, which no later step of any run reads
DeleteStep(w) ==
    /\ inflight[w].pc = "delete"
    /\ LET to_delete == SetToSeq(inflight[w].to_delete) IN
       \E outcome \in [1..NumBatches(Len(to_delete)) -> {"ok", "lookup", "delete"}] :
       \E found \in FoundChoices(store, to_delete) :
          LET d == DeletePhase(store, to_delete, outcome, found) IN
          /\ store' = d.store
          /\ inflight' = [inflight EXCEPT ![w] =
                 [@ EXCEPT !.pc = "done", !.to_add = {}, !.to_delete = {}]]
    /\ UNCHANGED <<disk, resp>>

\* a file appears or disappears while runs are in flight
ChangeTree ==
    /\ \E f \in DiskFiles : disk' = (disk \ {f}) \cup ({f} \ disk)
    /\ UNCHANGED <<store, resp, inflight>>

NextConc ==
    \/ ChangeTree
    \/ \E w \in Workers : BeginIndex(w) \/ AddStep(w) \/ DeleteStep(w)

SpecConc == Init /\ [][NextConc]_vars

---------------------------------------------------------------------------
(* delete_vectors_by_file_paths on long lists of paths *)

\* the i-th of the image files cats/1.png, cats/2.png, ...
NumberedPath(i) == <<"cats", SEP, ToString(i), ".png">>

\* the lengths of the lists that are tried: one batch, a full batch, a full
\* batch and one path, and the longest list
DeleteSizes == {1, DeleteBatchSize, DeleteBatchSize + 1, MaxDeletePaths}

\* the numbered paths of batch b of the longest list
NumberedBatch(b) ==
    {NumberedPath(i) : i \in ((b - 1) * DeleteBatchSize + 1)
                              ..Min(b * DeleteBatchSize, MaxDeletePaths)}

\* a collection that holds one record of each numbered path whose batch is
\* marked in indexed, and none of the others
NumberedStore(indexed) ==
    LET marked == UNION {NumberedBatch(b) : b \in {c \in DOMAIN indexed : indexed[c]}}
        all == UNION {NumberedBatch(b) : b \in DOMAIN indexed}
    IN [p \in all |-> IF p \in marked THEN 1 ELSE 0]

\* a call delete_vectors_by_file_paths(file_paths) about to be made with the
\* first n numbered paths; outcome says what the store does in each batch
InitDelete ==
    /\ \E n \in DeleteSizes :
       \E indexed \in [1..NumBatches(MaxDeletePaths) -> BOOLEAN] :
       \E outcome \in [1..NumBatches(n) -> {"ok", "lookup", "delete"}] :
          /\ store = NumberedStore(indexed)
          /\ resp = [op |-> "delete_call", n |-> n, outcome |-> outcome]
    /\ disk = {}
    /\ inflight = [w \in Workers |-> Idle]

\* delete_vectors_by_file_paths(file_paths) runs
DeleteCall ==
    /\ resp.op = "delete_call"
    /\ LET file_paths == [i \in 1..resp.n |-> NumberedPath(i)] IN
       \E found \in FoundChoices(store, file_paths) :
          LET r == DeleteVectorsByFilePaths(store, file_paths, resp.outcome, found)
          IN /\ store' = r.store
             /\ resp' = [op |-> "delete_result", file_paths |-> file_paths,
                         outcome |-> resp.outcome, before |-> store,
                         deleted |-> r.deleted]
    /\ UNCHANGED <<disk, inflight>>

NextDelete == DeleteCall

SpecDelete == InitDelete /\ [][NextDelete]_vars

---------------------------------------------------------------------------
(* _get_all_entities_iter, one client.query at a time *)

\* the collection sizes that are tried: empty, one record, one record less
\* than a page, a page, a page and one record, two pages, and the largest
ScanSizes == {0, 1, ScanBatchSize - 1, ScanBatchSize, ScanBatchSize + 1,
              2 * ScanBatchSize, MaxScanRows}

\* the collections that are scanned: n records, of which the first, all but
\* the first, or all are records of cats/a.png and the others of dogs/b.png
ScanStores ==
    {[p \in DiskFiles |-> IF p = CatsA THEN a
                          ELSE IF p = DogsB THEN n - a ELSE 0] :
        <<n, a>> \in {<<m, c>> \in ScanSizes \X (0..MaxScanRows) :
                         c <= m /\ c \in {0, 1, m - 1, m}}}

\* what get_collection_stats may report as row_count for collection s: the
\* number of records, or a number that is one behind or one ahead of it
ReportedCounts(s) == {c \in {Total(s) - 1, Total(s), Total(s) + 1} : c >= 0}

\* a call of _get_all_entities_iter about to be made
InitScan ==
    /\ store \in ScanStores
    /\ resp = [op |-> "scan", pc |-> "count"]
    /\ disk = {}
    /\ inflight = [w \in Workers |-> Idle]

\* the state of the call when it returns all_entities or raises
ScanDone(st, all_entities, raised) ==
    [op |-> "scan", pc |-> "done", total_entities |-> st.total_entities,
     fetched_count |-> st.fetched_count, offset |-> st.offset,
     all_entities |-> all_entities, raised |-> raised,
     count_failed |-> st.count_failed]

\* total_entities = self.count_entities(), and the early return on 0
ScanCount ==
    /\ resp.op = "scan" /\ resp.pc = "count"
    /\ \E fails \in BOOLEAN :
       \E row_count \in ReportedCounts(store) :
          LET total_entities == IF fails THEN CountEntities(store, TRUE)
                                ELSE row_count
              st == [op |-> "scan", pc |-> "loop",
                     total_entities |-> total_entities,
                     fetched_count |-> 0, offset |-> 0, all_entities |-> <<>>,
                     raised |-> FALSE, count_failed |-> fails]
          IN resp' = IF total_entities = 0 THEN ScanDone(st, <<>>, FALSE) ELSE st
    /\ UNCHANGED <<store, disk, inflight>>

\* the test of the while loop and one pass of its body
ScanPage ==
    /\ resp.op = "scan" /\ resp.pc = "loop"
    /\ IF ~(resp.fetched_count < resp.total_entities)
       THEN resp' = ScanDone(resp, resp.all_entities, FALSE)
       ELSE \E queryFails \in BOOLEAN :
               IF queryFails
               THEN resp' = ScanDone(resp, <<>>, TRUE)
               ELSE LET results == QueryPage(Rows(store), ScanBatchSize, resp.offset)
                        st == [resp EXCEPT
                                 !.all_entities = resp.all_entities \o results,
                                 !.fetched_count = resp.fetched_count + Len(results),
                                 !.offset = resp.offset + Len(results)]
                    IN resp' = IF results = <<>>
                               THEN ScanDone(resp, resp.all_entities, FALSE)
                               ELSE IF Len(results) < ScanBatchSize
                               THEN ScanDone(st, st.all_entities, FALSE)
                               ELSE st
    /\ UNCHANGED <<store, disk, inflight>>

NextScan == ScanCount \/ ScanPage

\* the call runs until it returns: nothing else is scheduled inside it
SpecScan == InitScan /\ [][NextScan]_vars /\ WF_vars(NextScan)

---------------------------------------------------------------------------
(* Properties *)

\* the URL the service builds for a stored path
UrlOf(path) == <<"http://host", "/", "images", "/">> \o path

\* the last request was an index run that returned its report
IndexDone == resp.op = "index" /\ resp.status = 200

\* the last request was a search that returned its results
SearchDone == resp.op = "search" /\ resp.status = 200

\* no embedding call and no store call failed during the last index run
NoCallFailed == resp.trace.failed_calls = {} /\ resp.trace.embed_failed = {}

\* path p lies in the scope of an index run for the category
InScope(category, p) ==
    Truthy(category) => StartsWith(p, Strip(category.s) \o <<"/">>)

\* the recognised image paths on disk
ImagesOnDisk == {p \in disk : p[Len(p)] \in ImageExtensions}

\* C1: after an index run in which no embedding call and no store call
\* failed, the paths held by records under the run's scope are exactly the
\* recognised image paths on disk under that scope, whatever the collection
\* held before (several records of one path included).
C1_StoreAgreesWithDisk ==
    (IndexDone /\ NoCallFailed) =>
        {p \in StoredPaths(store) : InScope(resp.category, p)}
          = {p \in ImagesOnDisk : InScope(resp.category, p)}

\* C2: to_add = L \ I and to_delete = I \ L; the two are disjoint and
\* (I \cup to_add) \ to_delete = L; for L = {cats/a.png, dogs/b.jpg} and
\* I = {dogs/b.jpg, dogs/c.gif}, to_add = {cats/a.png} and
\* to_delete = {dogs/c.gif}.
C2_SetReconciliation ==
    resp.op = "diff" =>
        /\ resp.to_add = {p \in resp.local : p \notin resp.indexed}
        /\ resp.to_delete = {p \in resp.indexed : p \notin resp.local}
        /\ resp.to_add \cap resp.to_delete = {}
        /\ (resp.indexed \cup resp.to_add) \ resp.to_delete = resp.local
        /\ (resp.local = {CatsA, DogsB} /\ resp.indexed = {DogsB, DogsC})
              => (resp.to_add = {CatsA} /\ resp.to_delete = {DogsC})

\* C2 witness: scenario A has been computed
C2_Witness ==
    /\ resp.op = "diff"
    /\ resp.local = {CatsA, DogsB}
    /\ resp.indexed = {DogsB, DogsC}
    /\ resp.to_add = {CatsA}
    /\ resp.to_delete = {DogsC}

\* C3: when two index runs on the same scope follow each other with no
\* change of the file tree in between (and no call of either run fails),
\* the second run reports zero added and zero deleted records and leaves
\* the collection unchanged.
C3_Idempotent ==
    [][(/\ IndexDone /\ NoCallFailed
        /\ resp'.op = "index" /\ resp'.status = 200
        /\ resp'.trace.failed_calls = {} /\ resp'.trace.embed_failed = {}
        /\ resp'.category = resp.category
        /\ disk' = disk)
       => (/\ resp'.body.new_files_added_to_milvus = 0
           /\ resp'.body.files_deleted_from_milvus = 0
           /\ store' = store)]_vars

\* C4: whatever call fails, an index run inserts a record only for a path
\* that is on disk inside the run's scope and of which the collection held
\* no record when the run started, and deletes a record only if its path
\* lies inside the run's scope and is not on disk; nothing else changes.
C4_RecordLifecycle ==
    [][\A p \in DiskFiles :
          /\ store'[p] > store[p] =>
                /\ resp'.op = "index"
                /\ p \in ImagesOnDisk /\ InScope(resp'.category, p)
                /\ store[p] = 0
          /\ store'[p] < store[p] =>
                /\ resp'.op = "index"
                /\ p \notin disk /\ InScope(resp'.category, p)]_vars

\* C5: an index run whose category is the empty string or only separators
\* is a whole-tree run: it scans every recognised image on disk and compares
\* it with every indexed path.
C5_SeparatorCategoryIsWholeTree ==
    (resp.op = "index" /\ ~resp.category.isNone /\ Strip(resp.category.s) = <<>>) =>
        /\ resp.status = 200
        /\ resp.trace.local = ImagesOnDisk
        /\ resp.trace.to_add = ImagesOnDisk \ resp.trace.indexed

\* the hits of the last search whose path starts with the category's prefix
HitsInCategory ==
    {i \in 1..Len(resp.hits) :
        StartsWith(resp.hits[i].file_path.s, Strip(resp.category.s) \o <<"/">>)}

\* the category of the last search is not empty after stripping separators
HasCategoryPrefix == ~resp.category.isNone /\ Strip(resp.category.s) # <<>>

\* C6: for a search with a category, when the store returns hits and none
\* of them has a path starting with the category prefix, the response is
\* exactly one result, the nearest hit; when some hit is in the category,
\* no hit from outside the category is returned.
C6_SearchFallback ==
    (SearchDone /\ HasCategoryPrefix /\ resp.hits # <<>>) =>
        /\ HitsInCategory = {} => resp.data = <<UrlOf(resp.hits[1].file_path.s)>>
        /\ HitsInCategory # {} =>
              \A j \in 1..Len(resp.data) :
                 \E i \in HitsInCategory : resp.data[j] = UrlOf(resp.hits[i].file_path.s)

\* C6 witness: a search in cats/ whose two hits are both outside cats/
\* returned the first of them
C6_Witness ==
    /\ SearchDone /\ HasCategoryPrefix
    /\ Len(resp.hits) = 2
    /\ HitsInCategory = {}
    /\ resp.data = <<UrlOf(DogsB)>>

\* the URLs of the hits with an index in I, in the order of the hits
RECURSIVE UrlsOfHits(_, _)
UrlsOfHits(hits, I) ==
    IF hits = <<>> THEN <<>>
    ELSE LET n == Len(hits)
             rest == UrlsOfHits(SubSeq(hits, 1, n - 1), I)
         IN IF n \in I THEN rest \o <<UrlOf(hits[n].file_path.s)>> ELSE rest

\* C7: a search with limit n returns at most n results, in the order of the
\* store's hits; with a category whose prefix matches some hit, exactly the
\* hits in the category; with no category, or one that is empty after
\* stripping separators, every hit; two records and limit 3 give two results.
C7_SearchFilter ==
    SearchDone =>
        /\ Len(resp.data) <= resp.n
        /\ (HasCategoryPrefix /\ HitsInCategory # {}) =>
              resp.data = UrlsOfHits(resp.hits, HitsInCategory)
        /\ ~HasCategoryPrefix =>
              resp.data = UrlsOfHits(resp.hits, 1..Len(resp.hits))
        /\ (~HasCategoryPrefix /\ Total(store) = 2 /\ resp.n = 3) =>
              Len(resp.data) = 2

\* C7 witness: a search in cats/ with three hits kept the two hits in cats/
\* and dropped the nearest one, which is in dogs/
C7_Witness ==
    /\ SearchDone /\ HasCategoryPrefix
    /\ Len(resp.hits) = 3
    /\ resp.hits[1].file_path.s = DogsB
    /\ resp.data = <<UrlOf(CatsA), UrlOf(CatsA)>>

\* scenario B: two records, limit 3, no category, two results
C7_ScenarioB ==
    /\ SearchDone /\ resp.category.isNone
    /\ Total(store) = 2 /\ resp.n = 3
    /\ Len(resp.data) = 2

\* C8: in an index run, get_embedding is called once for every path of
\* to_add whichever of them fail, each failing path adds one to the failure
\* counter, and the paths that did not fail are passed to one bulk insert.
C8_EmbeddingFailureContinues ==
    IndexDone =>
        LET tr == resp.trace
            ok == {p \in tr.to_add : p \notin tr.embed_failed}
        IN /\ Len(tr.embed_called) = Cardinality(tr.to_add)
           /\ {tr.embed_called[i] : i \in 1..Len(tr.embed_called)} = tr.to_add
           /\ tr.insert_called = (ok # {})
           /\ tr.insert_arg = ok
           /\ "insert" \notin tr.failed_calls =>
                 resp.body.failed_to_add_count = Cardinality(tr.embed_failed)

\* C8 witness: of two paths to add one failed to embed, the other was
\* inserted
C8_Witness ==
    /\ IndexDone
    /\ Cardinality(resp.trace.to_add) = 2
    /\ Cardinality(resp.trace.embed_failed) = 1
    /\ resp.trace.insert_called
    /\ Cardinality(resp.trace.insert_arg) = 1
    /\ resp.body.failed_to_add_count = 1
    /\ resp.body.new_files_added_to_milvus = 1

\* C9: in every index run added + failed = |to_add|; when the bulk insert
\* fails, added is 0 and failed is |to_add|.
C9_AddAccounting ==
    IndexDone =>
        /\ resp.body.new_files_added_to_milvus + resp.body.failed_to_add_count
              = Cardinality(resp.trace.to_add)
        /\ "insert" \in resp.trace.failed_calls =>
              /\ resp.body.new_files_added_to_milvus = 0
              /\ resp.body.failed_to_add_count = Cardinality(resp.trace.to_add)

\* C9 witness: one path failed to embed, the other was embedded and the
\* bulk insert failed
C9_Witness ==
    /\ IndexDone
    /\ "insert" \in resp.trace.failed_calls
    /\ Cardinality(resp.trace.embed_failed) = 1
    /\ Cardinality(resp.trace.insert_arg) = 1
    /\ resp.body.failed_to_add_count = 2

\* C10: every failed embedding or store call of an index run shows in a
\* counter of the report or in an error response: failed embeddings and a
\* failed insert in failed_to_add_count, a failed id lookup or delete in a
\* deleted count of 0, a failed final count in a total of 0, and a failed
\* scan of the indexed paths as an error response instead of a report.
C10_EveryFailureAccounted ==
    IndexDone =>
        LET tr == resp.trace IN
        /\ resp.body.failed_to_add_count =
              Cardinality(tr.embed_failed)
              + (IF "insert" \in tr.failed_calls THEN Cardinality(tr.insert_arg) ELSE 0)
        /\ tr.failed_calls \cap {"lookup", "delete"} # {} =>
              resp.body.files_deleted_from_milvus = 0
        /\ "count" \in tr.failed_calls => resp.body.total_in_milvus_after_op = 0
        /\ tr.failed_calls \cap {"scan_count", "scan_query"} = {}

\* workers w and v have both finished a run for the same scope, and each
\* of the two runs read the indexed set before the other wrote
OverlappedRuns(w, v) ==
    /\ w # v
    /\ inflight[w].pc = "done" /\ inflight[v].pc = "done"
    /\ v \in inflight[w].overlaps
    /\ inflight[w].category = inflight[v].category

\* C11: index runs are not coordinated: when two runs for the same scope
\* overlap, every path that both of them inserted is held by two records
\* once both have finished; nothing between a run's read of the indexed set
\* and its insert keeps the other run out.
C11_OverlapDuplicates ==
    \A w \in Workers : \A v \in Workers :
        OverlappedRuns(w, v) =>
            \A p \in inflight[w].inserted \cap inflight[v].inserted : store[p] >= 2

\* C11 witness: two overlapping whole-tree runs have finished, cats/a.png is
\* on disk once and the collection holds two records of it
C11_Witness ==
    /\ OverlappedRuns(1, 2)
    /\ inflight[1].category = [isNone |-> TRUE, s |-> <<>>]
    /\ CatsA \in inflight[1].inserted \cap inflight[2].inserted
    /\ CatsA \in disk
    /\ store[CatsA] = 2

\* the batch of delete_vectors_by_file_paths that holds position i of the list
BatchOf(i) == ((i - 1) \div DeleteBatchSize) + 1

\* the positions of the list whose record the store confirmed as deleted:
\* those of a batch whose lookup and delete call both succeeded
ConfirmedPositions ==
    {i \in DOMAIN resp.file_paths :
        /\ resp.outcome[BatchOf(i)] = "ok"
        /\ resp.before[resp.file_paths[i]] > 0}

ExactScanDone ==
    /\ resp.op = "scan" /\ resp.pc = "done"
    /\ ~resp.raised /\ ~resp.count_failed
    /\ resp.total_entities = Total(store)

\* the scan returned every record exactly once
ScanReturnedAll ==
    /\ Len(resp.all_entities) = Total(store)
    /\ \A p \in DOMAIN store : Occurrences(resp.all_entities, p) = store[p]
    /\ resp.all_entities = GetAllEntitiesIter(store, "none").entities

\* the paging loop is left in this step
ScanLoopLeft == resp.pc = "loop" /\ resp'.pc = "done"

\* the page that the step reads
ScanCurrentPage == QueryPage(Rows(store), ScanBatchSize, resp.offset)

\* C13: _get_all_entities_iter reads the collection in pages of 1000 and,
\* when no store call fails and the reported row count is the number of
\* records, returns every record exactly once, for an empty collection, less
\* than a page, whole pages, and more than a page; the loop is left only when
\* the reported total is reached, the page is empty or shorter than 1000 (or
\* the query raises), it goes on otherwise, and the call always returns.
C13_ScanReturnsEveryRecord ==
    /\ [](ExactScanDone => ScanReturnedAll)
    /\ [][ScanLoopLeft =>
              \/ ~(resp.fetched_count < resp.total_entities)
              \/ resp'.raised
              \/ ScanCurrentPage = <<>>
              \/ Len(ScanCurrentPage) < ScanBatchSize]_vars
    /\ [][(resp.pc = "loop" /\ resp'.pc = "loop") =>
              /\ resp.fetched_count < resp.total_entities
              /\ Len(ScanCurrentPage) = ScanBatchSize
              /\ resp'.offset = resp.offset + ScanBatchSize
              /\ resp'.fetched_count = resp.fetched_count + ScanBatchSize]_vars
    /\ <>(resp.op = "scan" /\ resp.pc = "done")

\* a collection of more than two pages, with records of two paths, has been
\* read to its last record
C13_Witness ==
    /\ ExactScanDone
    /\ Total(store) > 2 * ScanBatchSize
    /\ store[CatsA] > 0 /\ store[DogsB] > 0
    /\ resp.offset = Total(store)
    /\ Len(resp.all_entities) = Total(store)

=============================================================================
